---- MODULE Spec2Model ----
(***************************************************************************)
(* Model of notebooks/00-etl.ipynb: the MedSat and Spatial Signatures ETL. *)
(* Each code cell of the notebook is one action; pc is the cell that runs   *)
(* next under "Run All", and an exception raised by a cell ends the run.    *)
(***************************************************************************)
EXTENDS Integers, Sequences, FiniteSets, TLC

VARIABLES
    pc,                 \* the cell that runs next, "done" or "aborted"
    err,                \* the exception that ended the run, or "none"
    ss_raw,             \* gpd.read_file(spatial_signatures_GB_clean.gpkg)
    ss_pen_portraits,   \* lookup table keyed on "type"
    ss_per_geometry,    \* lookup table keyed on "id"
    ss,                 \* the merged Spatial Signatures rows
    chunk_size,         \* rows per partition file
    n_chunks,           \* number of partition files the Load cell writes
    i,                  \* loop index of the Load cell
    written,            \* partition files written so far, in write order
    medsat_2019,        \* 2019 point table, with year = 2019
    medsat_2020,        \* 2020 point table, with year = 2020
    lsoa_to_region,     \* lookup table keyed on "LSOA21CD"
    medsat,             \* the merged, sorted MedSat table
    sociodemographic_name,  \* name column of the sociodemographic frame
    sociodemographic,   \* medsat_name column of the sociodemographic frame
    environmental,      \* medsat_name column of the environmental frame
    outcomes,           \* medsat_name column of the outcomes frame
    auxiliary,          \* medsat_name column of the auxiliary frame
    variables,          \* the single variable lookup table
    gap_report,         \* what the gap cell displays
    loaded,             \* files the MedSat Load cells have written
    sheet_in,           \* a metadata sheet as medsat_variables.parse returns it
    sheet_out           \* the frame its cell leaves behind

ssVars == <<ss_raw, ss_pen_portraits, ss_per_geometry, ss,
            chunk_size, n_chunks, i, written>>
medsatVars == <<medsat_2019, medsat_2020, lsoa_to_region, medsat,
                sociodemographic_name,
                sociodemographic, environmental, outcomes, auxiliary,
                variables, gap_report, loaded>>
sheetVars == <<sheet_in, sheet_out>>
vars == <<pc, err, ssVars, medsatVars, sheetVars>>

\* ------------------------------------------------------------ bounds
MaxRows == 100
MaxChunk == 3
MaxPrimary == 2
MaxLookup == 2
MaxYearRows == 1
MaxSheet == 2
MaxHeaderLen == 4
MaxCells == 3

\* The value pandas shows as NaN / None.
NULL == "NULL"
\* A table variable that no cell has assigned yet.
UNSET == [columns |-> {}, rows |-> <<>>]

Min(a, b) == IF a < b THEN a ELSE b

\* No metadata sheet parsed yet.
NoSheet == [name |-> "none"]
SheetsIdle == sheet_in = NoSheet /\ sheet_out = NoSheet

\* The MedSat names before any MedSat cell has run.
MedsatIdle ==
    /\ medsat_2019 = UNSET
    /\ medsat_2020 = UNSET
    /\ lsoa_to_region = UNSET
    /\ medsat = UNSET
    /\ sociodemographic_name = <<>>
    /\ sociodemographic = <<>>
    /\ environmental = <<>>
    /\ outcomes = <<>>
    /\ auxiliary = <<>>
    /\ variables = <<>>
    /\ gap_report = {}
    /\ loaded = {}

\* ------------------------------------------------------------ partitioner
\* Python's seq[lo:hi] on 0-based positions: both ends are clamped to the length.
\* (IlocBad: the slice taken from one row too far.)
IlocBad(rows, lo, hi) == SubSeq(rows, lo + 2, Min(hi, Len(rows)))
Iloc(rows, lo, hi) == SubSeq(rows, Min(lo, Len(rows)) + 1, Min(hi, Len(rows)))

\* n_chunks = len(ss) // chunk_size + 1
NChunks(n, k) == (n \div k) + 1

\* Decimal digits of a natural number, as character codes ("0" is 48).
RECURSIVE Digits(_)
Digits(n) == IF n < 10 THEN <<48 + n>> ELSE Digits(n \div 10) \o <<48 + (n % 10)>>

\* f"{chunk_num:02d}": the digits, left-padded with "0" to at least two characters.
\* (Fmt02dBad: no padding, as "{chunk_num}".)
Fmt02dBad(n) == Digits(n)
Fmt02d(n) == IF Len(Digits(n)) < 2 THEN <<48>> \o Digits(n) ELSE Digits(n)

\* f"spatial_signatures_{chunk_num:02d}.parquet.gzip", as character codes: the
\* prefix is kept to its last character "_" (95) and the suffix to its first
\* character "." (46), the ones a comparison of two such names can reach.
FilePath(chunk_num) == <<95>> \o Fmt02d(chunk_num) \o <<46>>

\* Spatial Signatures Load cell, before the loop.
LoadSetup ==
    /\ pc = "ss_load"
    /\ n_chunks' = NChunks(Len(ss.rows), chunk_size)
    /\ i' = 0
    /\ written' = <<>>
    /\ pc' = "ss_loop"
    /\ UNCHANGED <<err, ss_raw, ss_pen_portraits, ss_per_geometry, ss, chunk_size,
                   medsatVars, sheetVars>>

\* One iteration of `for i in range(n_chunks)`.
WriteChunk ==
    /\ pc = "ss_loop"
    /\ i < n_chunks
    /\ LET chunk == Iloc(ss.rows, i * chunk_size, (i + 1) * chunk_size)
           chunk_num == i + 1
       IN written' = Append(written, [chunk_num |-> chunk_num,
                                      file_path |-> FilePath(chunk_num),
                                      rows |-> chunk])
    /\ i' = i + 1
    /\ UNCHANGED <<pc, err, ss_raw, ss_pen_portraits, ss_per_geometry, ss,
                   chunk_size, n_chunks, medsatVars, sheetVars>>

\* range(n_chunks) is exhausted.
LoopDone ==
    /\ pc = "ss_loop"
    /\ i = n_chunks
    /\ pc' = "done"
    /\ UNCHANGED <<err, ss_raw, ss_pen_portraits, ss_per_geometry, ss,
                   chunk_size, n_chunks, i, written, medsatVars, sheetVars>>

\* The state at the Load cell: ss holds n rows, told apart by their id.
InitPartition ==
    /\ pc = "ss_load"
    /\ err = "none"
    /\ ss_raw = UNSET
    /\ ss_pen_portraits = UNSET
    /\ ss_per_geometry = UNSET
    /\ \E n \in 0..MaxRows :
           ss = [columns |-> {"id"}, rows |-> [j \in 1..n |-> [id |-> j]]]
    /\ chunk_size \in 1..MaxChunk
    /\ n_chunks = 0
    /\ i = 0
    /\ written = <<>>
    /\ MedsatIdle
    /\ SheetsIdle

NextPartition == LoadSetup \/ WriteChunk \/ LoopDone

SpecPartition == InitPartition /\ [][NextPartition]_vars

\* ------------------------------------------------------------ merger
\* A table is [columns |-> set of names, rows |-> sequence of records over them].
\* The sequences over S of length at most n.
SeqsUpTo(S, n) == UNION {[1..m -> S] : m \in 0..n}

\* The rows of `right` whose key equals that of left row l, in right's order.
Matches(l, right, on) == SelectSeq(right.rows, LAMBDA r : r[on] = l[on])

\* Left row l extended with the other columns of right row r.
JoinRow(l, r, left, right) ==
    [c \in left.columns \cup right.columns |->
        IF c \in left.columns THEN l[c] ELSE r[c]]

\* Left row l with no match: the other columns of right are null.
NullRow(l, left, right) ==
    [c \in left.columns \cup right.columns |->
        IF c \in left.columns THEN l[c] ELSE NULL]

RECURSIVE JoinAll(_, _, _, _)
JoinAll(l, ms, left, right) ==
    IF ms = <<>> THEN <<>>
    ELSE <<JoinRow(l, Head(ms), left, right)>> \o JoinAll(l, Tail(ms), left, right)

RECURSIVE MergeRowsInner(_, _, _, _)
MergeRowsInner(rows, left, right, on) ==
    IF rows = <<>> THEN <<>>
    ELSE JoinAll(Head(rows), Matches(Head(rows), right, on), left, right)
             \o MergeRowsInner(Tail(rows), left, right, on)

\* left.merge(right, on=on, how="left") without validate=: the left rows in
\* their order, each once per matching right row (in right's order), or once
\* with nulls when no right row matches.
RECURSIVE MergeRows(_, _, _, _)
MergeRows(rows, left, right, on) ==
    IF rows = <<>> THEN <<>>
    ELSE LET l == Head(rows)
             ms == Matches(l, right, on)
         IN (IF ms = <<>> THEN <<NullRow(l, left, right)>>
             ELSE JoinAll(l, ms, left, right))
                \o MergeRows(Tail(rows), left, right, on)

\* (MergeInner: how="inner", which drops the left rows without a match.)
MergeInner(left, right, on) ==
    [columns |-> left.columns \cup right.columns,
     rows |-> MergeRowsInner(left.rows, left, right, on)]
Merge(left, right, on) ==
    [columns |-> left.columns \cup right.columns,
     rows |-> MergeRows(left.rows, left, right, on)]

Ids == {1, 2}
Types == {"a", "b"}

\* gpd.read_file(...gpkg): rows keyed by id and type, told apart by geometry.
SsRawTables ==
    {[columns |-> {"id", "type", "geometry"},
      rows |-> [j \in DOMAIN ks |->
                   [id |-> ks[j][1], type |-> ks[j][2], geometry |-> j]]] :
        ks \in SeqsUpTo(Ids \X Types, MaxPrimary)}

\* A lookup table on `key`, its rows told apart by column `other`.
LookupTables(key, Keys, other) ==
    {[columns |-> {key, other},
      rows |-> [j \in DOMAIN ks |->
                   [c \in {key, other} |-> IF c = key THEN ks[j] ELSE ToString(j)]]] :
        ks \in SeqsUpTo(Keys, MaxLookup)}

\* Spatial Signatures Data cell: read the three tables and merge them.
SSTransform ==
    /\ pc = "ss_transform"
    /\ ss' = Merge(Merge(ss_raw, ss_pen_portraits, "type"), ss_per_geometry, "id")
    /\ pc' = "ss_load"
    /\ UNCHANGED <<err, ss_raw, ss_pen_portraits, ss_per_geometry,
                   chunk_size, n_chunks, i, written, medsatVars, sheetVars>>

InitSS ==
    /\ pc = "ss_transform"
    /\ err = "none"
    /\ ss_raw \in SsRawTables
    /\ ss_pen_portraits \in LookupTables("type", Types, "description")
    /\ ss_per_geometry \in LookupTables("id", Ids, "code")
    /\ ss = UNSET
    /\ chunk_size \in 1..MaxChunk
    /\ n_chunks = 0
    /\ i = 0
    /\ written = <<>>
    /\ MedsatIdle
    /\ SheetsIdle

NextSS == SSTransform \/ LoadSetup \/ WriteChunk \/ LoopDone

SpecSS == InitSS /\ [][NextSS]_vars

\* ------------------------------------------------------------ MedSat data
\* Codes in sort order; a null sorts after every code (na_position="last").
Lsoas == <<"E01000001", "E01000002">>
Regions == <<"E12000001", "E12000002", "E12000003", "E12000004">>
CodeRank(codes, v) ==
    IF v = NULL THEN Len(codes) + 1 ELSE CHOOSE k \in DOMAIN codes : codes[k] = v

\* Columns a yearly geojson file may hold besides geometry; one census column
\* is spelt with two spaces.
FileColumns == {"geography code", "c_a  x", "e_b", "o_quantity"}

\* gpd.read_file(...).assign(year=year): every row has a geometry and the year.
YearTables(year) ==
    {[columns |-> cs \cup {"geometry", "year"},
      rows |-> [j \in DOMAIN rs |->
                   [c \in cs \cup {"geometry", "year"} |->
                       CASE c = "year" -> year
                         [] c = "geometry" -> rs[j][2]
                         [] c = "geography code" -> rs[j][1]
                         [] OTHER -> "v"]]] :
        cs \in SUBSET FileColumns,
        rs \in SeqsUpTo({Lsoas[k] : k \in DOMAIN Lsoas}
                            \X {"valid", "self_intersecting"}, MaxYearRows)}

\* pd.read_csv(...)[["LSOA21CD", "RGN22CD", "RGN22NM"]]
LsoaToRegionTables ==
    {[columns |-> {"LSOA21CD", "RGN22CD", "RGN22NM"},
      rows |-> [j \in DOMAIN ks |->
                   [LSOA21CD |-> ks[j],
                    RGN22CD |-> Regions[((Len(ks) - j) % Len(Regions)) + 1],
                    RGN22NM |-> ToString(j)]]] :
        ks \in SeqsUpTo({Lsoas[k] : k \in DOMAIN Lsoas}, MaxLookup)}

\* set(a.columns) ^ set(b.columns)
SymmetricDifference(A, B) == (A \ B) \cup (B \ A)

\* The assert's condition: len(set(...) ^ set(...)) == 0
\* (ColumnsMatchBad: the one-sided difference set(a) - set(b).)
ColumnsMatchBad(a, b) == a.columns \ b.columns = {}
ColumnsMatch(a, b) == Cardinality(SymmetricDifference(a.columns, b.columns)) = 0

\* pd.concat([a, b], ignore_index=True): a's rows then b's, over the union of
\* the columns, null where a frame lacks a column.
Concat(a, b) ==
    LET cols == a.columns \cup b.columns
        fill(t) == [j \in DOMAIN t.rows |->
                       [c \in cols |-> IF c \in t.columns THEN t.rows[j][c] ELSE NULL]]
    IN [columns |-> cols, rows |-> fill(a) \o fill(b)]

\* .rename(columns={old: new}); a frame without `old` is left as it is.
Rename(t, old, new) ==
    LET to(c) == IF c = old THEN new ELSE c
        from(c) == IF c = new /\ old \in t.columns THEN old ELSE c
    IN [columns |-> {to(c) : c \in t.columns},
        rows |-> [j \in DOMAIN t.rows |->
                     [c \in {to(d) : d \in t.columns} |-> t.rows[j][from(c)]]]]

\* The sort key of by=["RGN22CD", "LSOA21CD", "year"].
SortKey(r) == <<CodeRank(Regions, r["RGN22CD"]), CodeRank(Lsoas, r["LSOA21CD"]), r["year"]>>
KeyLeq(a, b) ==
    \/ a[1] < b[1]
    \/ a[1] = b[1] /\ a[2] < b[2]
    \/ a[1] = b[1] /\ a[2] = b[2] /\ a[3] <= b[3]

\* r put after the rows of the sorted sequence whose key is at most r's.
RECURSIVE InsertRow(_, _)
InsertRow(r, sorted) ==
    IF sorted = <<>> THEN <<r>>
    ELSE IF KeyLeq(SortKey(Head(sorted)), SortKey(r))
         THEN <<Head(sorted)>> \o InsertRow(r, Tail(sorted))
         ELSE <<r>> \o sorted

RECURSIVE SortRows(_)
SortRows(rows) ==
    IF rows = <<>> THEN <<>>
    ELSE InsertRow(rows[Len(rows)], SortRows(SubSeq(rows, 1, Len(rows) - 1)))

\* .sort_values(by=[...], ignore_index=True): rows with equal keys keep their order.
SortValues(t) == [columns |-> t.columns, rows |-> SortRows(t.rows)]

\* .assign(geometry=df["geometry"].make_valid()): self-intersecting rings repaired.
MakeValid(t) ==
    [columns |-> t.columns,
     rows |-> [j \in DOMAIN t.rows |->
                  [t.rows[j] EXCEPT !["geometry"] =
                      IF @ = "self_intersecting" THEN "valid" ELSE @]]]

\* re.sub(r"\s+", " ", c) on the column names that occur here.
ReSubWhitespace(c) == IF c = "c_a  x" THEN "c_a x" ELSE c

\* medsat.columns = [re.sub(...) for c in medsat]
CollapseColumns(t) ==
    [columns |-> {ReSubWhitespace(c) : c \in t.columns},
     rows |-> [j \in DOMAIN t.rows |->
                  [c \in {ReSubWhitespace(d) : d \in t.columns} |->
                      t.rows[j][CHOOSE d \in t.columns : ReSubWhitespace(d) = c]]]]

\* The assert cell: the two yearly tables must have the same columns.
AssertColumns ==
    /\ pc = "assert_columns"
    /\ IF ColumnsMatch(medsat_2019, medsat_2020)
       THEN pc' = "medsat_data" /\ err' = err
       ELSE pc' = "aborted" /\ err' = "AssertionError"
    /\ UNCHANGED <<ssVars, medsatVars, sheetVars>>

\* MedSat Data cell: concat, rename, merge, sort, make_valid, column clean-up.
\* The merge raises KeyError when the left frame has no "LSOA21CD" column.
MedsatData ==
    /\ pc = "medsat_data"
    /\ LET cat == Rename(Concat(medsat_2019, medsat_2020), "geography code", "LSOA21CD")
       IN IF "LSOA21CD" \in cat.columns
          THEN /\ medsat' = CollapseColumns(MakeValid(SortValues(
                                Merge(cat, lsoa_to_region, "LSOA21CD"))))
               /\ pc' = "fuzzy_match"
               /\ err' = err
          ELSE /\ medsat' = medsat
               /\ pc' = "aborted"
               /\ err' = "KeyError"
    /\ UNCHANGED <<ssVars, sheetVars, medsat_2019, medsat_2020, lsoa_to_region,
                   sociodemographic_name, sociodemographic, environmental, outcomes, auxiliary,
                   variables, gap_report, loaded>>

InitMedsat ==
    /\ pc = "assert_columns"
    /\ err = "none"
    /\ ss_raw = UNSET
    /\ ss_pen_portraits = UNSET
    /\ ss_per_geometry = UNSET
    /\ ss = UNSET
    /\ chunk_size = 1
    /\ n_chunks = 0
    /\ i = 0
    /\ written = <<>>
    /\ medsat_2019 \in YearTables(2019)
    /\ medsat_2020 \in YearTables(2020)
    /\ lsoa_to_region \in LsoaToRegionTables
    /\ medsat = UNSET
    /\ sociodemographic_name = <<>>
    /\ sociodemographic = <<>>
    /\ environmental = <<>>
    /\ outcomes = <<>>
    /\ auxiliary = <<>>
    /\ variables = <<>>
    /\ gap_report = {}
    /\ loaded = {}
    /\ SheetsIdle

\* The MedSat Data cells on their own.
NextMedsatData == AssertColumns \/ MedsatData

SpecMedsatData == InitMedsat /\ [][NextMedsatData]_vars

\* ------------------------------------------------------------ MedSat metadata
\* The census ("c_") column names that occur here, in lexicographic order.
CNames == <<"c_a  x", "c_a x", "c_a y", "c_b">>

\* medsat.filter(regex="^c_").columns, on the column names that occur here.
CColumns(t) == t.columns \cap {CNames[k] : k \in DOMAIN CNames}

\* The "name" values the sociodemographic sheet may hold.
DeclaredNames == {"a x", "a", "zz"}

\* The words of a declared name or of a column name (its "c_" prefix aside).
Tokens(s) ==
    CASE s \in {"a x", "c_a x", "c_a  x"} -> {"a", "x"}
      [] s = "c_a y" -> {"a", "y"}
      [] s \in {"a", "c_a"} -> {"a"}
      [] s = "c_b" -> {"b"}
      [] OTHER -> {s}

\* The similarity of a declared name and a candidate: the token-overlap ratio,
\* in percent.
Score(name, candidate) ==
    (200 * Cardinality(Tokens(name) \cap Tokens(candidate)))
        \div (Cardinality(Tokens(name)) + Cardinality(Tokens(candidate)))

\* The acceptance threshold, in percent.
Threshold == 60

\* find_best_match(name, candidates), called with the name and the candidates
\* only: the candidate with the highest score, the first in lexicographic
\* order among equals, or nothing when that score is below the threshold.
FindBestMatch(name, candidates) ==
    LET top == {c \in candidates :
                   \A d \in candidates : Score(name, d) <= Score(name, c)}
    IN IF top = {} THEN NULL
       ELSE LET best == CHOOSE c \in top :
                            \A d \in top : CodeRank(CNames, c) <= CodeRank(CNames, d)
            IN IF Score(name, best) >= Threshold THEN best ELSE NULL

\* The "name" values the other metadata sheets may hold.
EnvironmentalNames == {"b", "zz"}
OutcomeNames == {"quantitiy"}
AuxiliaryNames == {"geometry"}

\* name.str.replace("quantitiy", "quantity"), on the names that occur here.
ReplaceQuantitiy(n) == IF n = "quantitiy" THEN "quantity" ELSE n

\* sociodemographic["medsat_name"] = name.apply(find_best_match, args=(c_columns,))
FuzzyMatch ==
    /\ pc = "fuzzy_match"
    /\ \E names \in SeqsUpTo(DeclaredNames, MaxSheet) :
           /\ sociodemographic_name' = names
           /\ sociodemographic' =
                  [j \in DOMAIN names |-> FindBestMatch(names[j], CColumns(medsat))]
    /\ pc' = "environmental"
    /\ UNCHANGED <<err, ssVars, sheetVars, medsat_2019, medsat_2020, lsoa_to_region, medsat,
                   environmental, outcomes, auxiliary, variables, gap_report, loaded>>

\* environmental["medsat_name"] = "e_" + environmental["name"]
EnvironmentalName ==
    /\ pc = "environmental"
    /\ \E names \in SeqsUpTo(EnvironmentalNames, MaxSheet) :
           environmental' = [j \in DOMAIN names |-> "e_" \o names[j]]
    /\ pc' = "outcomes"
    /\ UNCHANGED <<err, ssVars, sheetVars, medsat_2019, medsat_2020, lsoa_to_region, medsat,
                   sociodemographic_name, sociodemographic, outcomes, auxiliary, variables, gap_report, loaded>>

\* outcomes["medsat_name"] = "o_" + name.str.replace("quantitiy", "quantity")
OutcomesName ==
    /\ pc = "outcomes"
    /\ \E names \in SeqsUpTo(OutcomeNames, MaxSheet) :
           outcomes' = [j \in DOMAIN names |-> "o_" \o ReplaceQuantitiy(names[j])]
    /\ pc' = "auxiliary"
    /\ UNCHANGED <<err, ssVars, sheetVars, medsat_2019, medsat_2020, lsoa_to_region, medsat,
                   sociodemographic_name, sociodemographic, environmental, auxiliary, variables,
                   gap_report, loaded>>

\* Auxiliary cell: medsat_name = name, row 0 set to LSOA21CD (added when the
\* sheet has no row), then the three new fields appended.
AuxiliaryName ==
    /\ pc = "auxiliary"
    /\ \E names \in SeqsUpTo(AuxiliaryNames, MaxSheet) :
           auxiliary' = (IF names = <<>> THEN <<"LSOA21CD">>
                         ELSE [names EXCEPT ![1] = "LSOA21CD"])
                            \o <<"RGN22CD", "RGN22NM", "year">>
    /\ pc' = "variables"
    /\ UNCHANGED <<err, ssVars, sheetVars, medsat_2019, medsat_2020, lsoa_to_region, medsat,
                   sociodemographic_name, sociodemographic, environmental, outcomes, variables,
                   gap_report, loaded>>

\* frame[["medsat_name", ...]].assign(category=category)
WithCategory(names, category) ==
    [j \in DOMAIN names |-> [medsat_name |-> names[j], category |-> category]]

\* Single Variable Lookup Table cell: pd.concat of the four frames.
Variables ==
    /\ pc = "variables"
    /\ variables' = WithCategory(sociodemographic, "sociodemographic")
                       \o WithCategory(environmental, "environmental")
                       \o WithCategory(outcomes, "outcomes")
                       \o WithCategory(auxiliary, "auxiliary")
    /\ pc' = "gap_check"
    /\ UNCHANGED <<err, ssVars, sheetVars, medsat_2019, medsat_2020, lsoa_to_region, medsat,
                   sociodemographic_name, sociodemographic, environmental, outcomes, auxiliary,
                   gap_report, loaded>>

\* set(variables["medsat_name"])
MedsatNames(vs) == {vs[j].medsat_name : j \in DOMAIN vs}

\* The gap cell: set(medsat.columns) ^ set(variables["medsat_name"]), displayed.
GapCheck ==
    /\ pc = "gap_check"
    /\ gap_report' = SymmetricDifference(medsat.columns, MedsatNames(variables))
    /\ pc' = "load_parquet"
    /\ UNCHANGED <<err, ssVars, sheetVars, medsat_2019, medsat_2020, lsoa_to_region, medsat,
                   sociodemographic_name, sociodemographic, environmental, outcomes, auxiliary,
                   variables, loaded>>

\* medsat.to_parquet(MEDSAT_PATH / "medsat.parquet.gzip", ...)
LoadParquet ==
    /\ pc = "load_parquet"
    /\ loaded' = loaded \cup {"medsat.parquet.gzip"}
    /\ pc' = "load_copy"
    /\ UNCHANGED <<err, ssVars, sheetVars, medsat_2019, medsat_2020, lsoa_to_region, medsat,
                   sociodemographic_name, sociodemographic, environmental, outcomes, auxiliary,
                   variables, gap_report>>

\* shutil.copy("../data/_tmp/MedSat Variables.xlsx", ...)
LoadCopy ==
    /\ pc = "load_copy"
    /\ loaded' = loaded \cup {"medsat_variables.xlsx"}
    /\ pc' = "load_csv"
    /\ UNCHANGED <<err, ssVars, sheetVars, medsat_2019, medsat_2020, lsoa_to_region, medsat,
                   sociodemographic_name, sociodemographic, environmental, outcomes, auxiliary,
                   variables, gap_report>>

\* The five to_csv calls.
LoadCsv ==
    /\ pc = "load_csv"
    /\ loaded' = loaded \cup {"sociodemographic.csv", "environmental.csv",
                              "outcomes.csv", "auxiliary.csv", "variables.csv"}
    /\ pc' = "done"
    /\ UNCHANGED <<err, ssVars, sheetVars, medsat_2019, medsat_2020, lsoa_to_region, medsat,
                   sociodemographic_name, sociodemographic, environmental, outcomes, auxiliary,
                   variables, gap_report>>

NextMedsat ==
    \/ AssertColumns \/ MedsatData
    \/ FuzzyMatch \/ EnvironmentalName \/ OutcomesName \/ AuxiliaryName
    \/ Variables \/ GapCheck
    \/ LoadParquet \/ LoadCopy \/ LoadCsv

SpecMedsat == InitMedsat /\ [][NextMedsat]_vars

\* The state at the fuzzy-match cell: medsat as the data cell leaves it, with
\* any of the census columns (their whitespace already collapsed) beside the
\* keys, and the sociodemographic sheet not matched yet.
InitMatch ==
    /\ pc = "fuzzy_match"
    /\ err = "none"
    /\ ss_raw = UNSET
    /\ ss_pen_portraits = UNSET
    /\ ss_per_geometry = UNSET
    /\ ss = UNSET
    /\ chunk_size = 1
    /\ n_chunks = 0
    /\ i = 0
    /\ written = <<>>
    /\ medsat_2019 = UNSET
    /\ medsat_2020 = UNSET
    /\ lsoa_to_region = UNSET
    /\ \E cs \in SUBSET {"c_a x", "c_a y", "c_b", "e_b"} :
           medsat = [columns |-> cs \cup {"LSOA21CD", "RGN22CD", "RGN22NM",
                                          "geometry", "year"},
                     rows |-> <<>>]
    /\ sociodemographic_name = <<>>
    /\ sociodemographic = <<>>
    /\ environmental = <<>>
    /\ outcomes = <<>>
    /\ auxiliary = <<>>
    /\ variables = <<>>
    /\ gap_report = {}
    /\ loaded = {}
    /\ SheetsIdle

\* The fuzzy-match cell on its own.
NextMatch == FuzzyMatch

SpecMatch == InitMatch /\ [][NextMatch]_vars

\* ------------------------------------------------------------ metadata sheets
\* A string is a sequence of one-character strings.
Alphabet == {"a", "A", " ", "("}
Strings(n) == SeqsUpTo(Alphabet, n)

\* str.lower(), one character at a time.
LowerChar(ch) == IF ch = "A" THEN "a" ELSE ch
Lower(str) == [j \in DOMAIN str |-> LowerChar(str[j])]

\* str.replace(old, new) for a one-character old and a new of any length.
RECURSIVE ReplaceChar(_, _, _)
ReplaceChar(str, old, new) ==
    IF str = <<>> THEN <<>>
    ELSE (IF Head(str) = old THEN new ELSE <<Head(str)>>)
             \o ReplaceChar(Tail(str), old, new)

\* c.lower().replace(" ", "_"): sociodemographic, outcomes and auxiliary headers.
CleanHeader(c) == ReplaceChar(Lower(c), " ", <<"_">>)

\* c.lower().replace(" ", "_").replace("(", "").replace(")", ""): environmental.
CleanHeaderEnvironmental(c) ==
    ReplaceChar(ReplaceChar(ReplaceChar(Lower(c), " ", <<"_">>), "(", <<>>), ")", <<>>)

\* Series.ffill(): a null cell takes the last non-null value above it; nulls
\* above the first value stay null.
RECURSIVE FfillFrom(_, _)
FfillFrom(last, col) ==
    IF col = <<>> THEN <<>>
    ELSE LET v == IF Head(col) = NULL THEN last ELSE Head(col)
         IN <<v>> \o FfillFrom(v, Tail(col))
Ffill(col) == FfillFrom(NULL, col)

\* The cells of the year column (float64 because of the nulls) and their
\* values as int.
YearCells == {"2019.0", "2020.0"}
IntOf(cell) == IF cell = "2019.0" THEN 2019 ELSE 2020

\* Series.astype(int) raises when a cell is null.
CanCastInt(col) == \A j \in DOMAIN col : col[j] # NULL
AsTypeInt(col) == [j \in DOMAIN col |-> IntOf(col[j])]

\* str.strip(): leading and trailing spaces removed.
RECURSIVE LStrip(_)
LStrip(str) == IF str # <<>> /\ Head(str) = " " THEN LStrip(Tail(str)) ELSE str
RECURSIVE RStrip(_)
RStrip(str) ==
    IF str # <<>> /\ str[Len(str)] = " " THEN RStrip(SubSeq(str, 1, Len(str) - 1))
    ELSE str
Strip(str) == LStrip(RStrip(str))

\* str.replace("  ", " "): non-overlapping pairs of spaces, left to right.
RECURSIVE ReplaceTwoSpaces(_)
ReplaceTwoSpaces(str) ==
    IF Len(str) >= 2 /\ str[1] = " " /\ str[2] = " "
    THEN <<" ">> \o ReplaceTwoSpaces(SubSeq(str, 3, Len(str)))
    ELSE IF str = <<>> THEN <<>>
    ELSE <<Head(str)>> \o ReplaceTwoSpaces(Tail(str))

\* df["type"].str.strip().str.replace("  ", " ")
CleanType(col) == [j \in DOMAIN col |-> ReplaceTwoSpaces(Strip(col[j]))]

\* The columns of n cells, each null or one of Values.
SparseColumns(Values, n) == [1..n -> Values \cup {NULL}]

\* Two headers of a sheet, besides the ones its cell reads by name; the parser
\* returns no empty header and no header twice.
HeaderPairs ==
    {h \in [1..2 -> Strings(MaxHeaderLen) \ {<<>>}] : h[1] # h[2]}

\* The sociodemographic sheets considered: any two headers over one plain row, or
\* plain headers over any sparse more_info and year columns, or over one type.
SociodemographicSheets ==
    {[name |-> "sociodemographic", columns |-> h,
      more_info |-> <<"u">>, year |-> <<"2019.0">>, type |-> <<<<"a">>>>] :
        h \in HeaderPairs}
    \cup
    UNION {
        {[name |-> "sociodemographic", columns |-> <<<<"a">>, <<"A", "a">>>>,
          more_info |-> mi, year |-> yr, type |-> [j \in 1..n |-> <<"a">>]] :
            mi \in SparseColumns({"u", "w"}, n),
            yr \in SparseColumns(YearCells, n)} : n \in 0..MaxCells}
    \cup
    {[name |-> "sociodemographic", columns |-> <<<<"a">>, <<"A", "a">>>>,
      more_info |-> <<"u">>, year |-> <<"2019.0">>, type |-> <<ty>>] :
        ty \in Strings(MaxHeaderLen)}

EnvironmentalSheets ==
    {[name |-> "environmental", columns |-> h, link_to_data_source |-> <<"u">>] :
        h \in HeaderPairs}
    \cup
    UNION {
        {[name |-> "environmental", columns |-> <<<<"a">>, <<"A", "a">>>>,
          link_to_data_source |-> l] : l \in SparseColumns({"u", "w"}, n)} :
            n \in 0..MaxCells}

HeaderOnlySheets(name) == {[name |-> name, columns |-> h] : h \in HeaderPairs}

\* Sociodemographic cell: clean the headers, then rename and assign; astype
\* raises after the headers were already replaced.
SociodemographicCell ==
    /\ pc = "parse_sheet"
    /\ \E sheet \in SociodemographicSheets :
        LET cols == [j \in DOMAIN sheet.columns |-> CleanHeader(sheet.columns[j])]
            year == Ffill(sheet.year)
        IN /\ sheet_in' = sheet
           /\ IF CanCastInt(year)
              THEN /\ sheet_out' = [name |-> sheet.name,
                                    columns |-> cols,
                                    more_info |-> Ffill(sheet.more_info),
                                    year |-> AsTypeInt(year),
                                    type |-> CleanType(sheet.type)]
                   /\ pc' = "done"
                   /\ err' = err
              ELSE /\ sheet_out' = [sheet EXCEPT !.columns = cols]
                   /\ pc' = "aborted"
                   /\ err' = "IntCastingNaNError"
    /\ UNCHANGED <<ssVars, medsatVars>>

\* Environmental cell, up to the forward fill.
EnvironmentalCell ==
    /\ pc = "parse_sheet"
    /\ \E sheet \in EnvironmentalSheets :
        /\ sheet_in' = sheet
        /\ sheet_out' =
               [name |-> sheet.name,
                columns |-> [j \in DOMAIN sheet.columns |->
                                CleanHeaderEnvironmental(sheet.columns[j])],
                link_to_data_source |-> Ffill(sheet.link_to_data_source)]
    /\ pc' = "done"
    /\ UNCHANGED <<err, ssVars, medsatVars>>

\* Outcomes cell: the headers.
OutcomesCell ==
    /\ pc = "parse_sheet"
    /\ \E sheet \in HeaderOnlySheets("outcomes") :
        /\ sheet_in' = sheet
        /\ sheet_out' = [sheet EXCEPT !.columns =
                            [j \in DOMAIN sheet.columns |-> CleanHeader(sheet.columns[j])]]
    /\ pc' = "done"
    /\ UNCHANGED <<err, ssVars, medsatVars>>

\* Auxiliary cell: the headers.
AuxiliaryCell ==
    /\ pc = "parse_sheet"
    /\ \E sheet \in HeaderOnlySheets("auxiliary") :
        /\ sheet_in' = sheet
        /\ sheet_out' = [sheet EXCEPT !.columns =
                            [j \in DOMAIN sheet.columns |-> CleanHeader(sheet.columns[j])]]
    /\ pc' = "done"
    /\ UNCHANGED <<err, ssVars, medsatVars>>

\* The workbook is open and no sheet parsed; the four sheet cells read only the
\* workbook and write only their own frame, so a behaviour follows one of them.
InitSheets ==
    /\ pc = "parse_sheet"
    /\ err = "none"
    /\ ss_raw = UNSET
    /\ ss_pen_portraits = UNSET
    /\ ss_per_geometry = UNSET
    /\ ss = UNSET
    /\ chunk_size = 1
    /\ n_chunks = 0
    /\ i = 0
    /\ written = <<>>
    /\ MedsatIdle
    /\ SheetsIdle

NextSheets == SociodemographicCell \/ EnvironmentalCell \/ OutcomesCell \/ AuxiliaryCell

SpecSheets == InitSheets /\ [][NextSheets]_vars

\* ------------------------------------------------------------ properties
CeilDiv(n, k) == (n + k - 1) \div k

RECURSIVE ConcatRows(_)
ConcatRows(files) ==
    IF files = <<>> THEN <<>> ELSE Head(files).rows \o ConcatRows(Tail(files))

RowSet(rows) == {rows[j] : j \in DOMAIN rows}

\* Whether rows is table[lo..hi] for some lo, hi: a contiguous slice of it.
IsSliceOf(rows, table) ==
    \E lo \in 1..(Len(table) + 1) : \E hi \in (lo - 1)..Len(table) :
        rows = SubSeq(table, lo, hi)

\* Order of two strings by character code, the shorter first when one is a
\* prefix of the other.
RECURSIVE LexLess(_, _)
LexLess(s, t) ==
    IF s = <<>> THEN t # <<>>
    ELSE IF t = <<>> THEN FALSE
    ELSE IF Head(s) # Head(t) THEN Head(s) < Head(t)
    ELSE LexLess(Tail(s), Tail(t))

\* C1: once the Load cell has finished, exactly ceil(n / k) partitions were
\* written, each holds at most k rows, and only the last holds fewer than k.
C1_PartitionCount ==
    pc = "done" =>
        /\ Len(written) = CeilDiv(Len(ss.rows), chunk_size)
        /\ \A j \in DOMAIN written : Len(written[j].rows) <= chunk_size
        /\ \A j \in DOMAIN written :
               j < Len(written) => Len(written[j].rows) = chunk_size

\* C2: the partitions written so far concatenate, in partition-number order, to
\* the rows of ss consumed so far, and at the end to ss itself; each partition
\* is a contiguous slice of ss and no two partitions share a row.
C2_PartitionsReconstruct ==
    /\ pc \in {"ss_loop", "done"} =>
           ConcatRows(written) = SubSeq(ss.rows, 1, Min(i * chunk_size, Len(ss.rows)))
    /\ pc = "done" =>
           /\ ConcatRows(written) = ss.rows
           /\ \A a \in DOMAIN written : IsSliceOf(written[a].rows, ss.rows)
           /\ \A a, b \in DOMAIN written :
                  a < b => RowSet(written[a].rows) \cap RowSet(written[b].rows) = {}

C2_Witness ==
    /\ pc = "done"
    /\ Len(written) >= 3
    /\ Len(written[Len(written)].rows) \in 1..(chunk_size - 1)

\* C10 as stated: partitions are numbered 1..N in write order and, whatever N is,
\* a file with a smaller partition number has the smaller file name.
C10_NamesSortedForEveryN ==
    pc = "done" =>
        /\ \A a \in DOMAIN written : written[a].chunk_num = a
        /\ \A a, b \in DOMAIN written :
               a < b => LexLess(written[a].file_path, written[b].file_path)

\* C10 amended: partitions are numbered 1..N in write order and, among the
\* partitions numbered up to 99, a file with a smaller partition number has the
\* smaller file name.
C10_NamesSortedUpTo99 ==
    pc = "done" =>
        /\ \A a \in DOMAIN written : written[a].chunk_num = a
        /\ \A a, b \in DOMAIN written :
               (a < b /\ b <= 99) =>
                   LexLess(written[a].file_path, written[b].file_path)

C10_Witness ==
    /\ pc = "done"
    /\ Len(written) = 99
    /\ written[9].file_path = <<95, 48, 57, 46>>

\* Whether two rows of the table share a value of column `on`.
HasDuplicateKey(table, on) ==
    \E a, b \in DOMAIN table.rows : a # b /\ table.rows[a][on] = table.rows[b][on]

\* Row r restricted to the columns cols.
Restrict(r, cols) == [c \in cols |-> r[c]]

\* The values of column `other` in the rows of table whose `on` equals k.
LookupValues(table, on, k, other) ==
    {table.rows[a][other] : a \in {b \in DOMAIN table.rows : table.rows[b][on] = k}}

\* C3: when neither lookup table repeats a join key, the merged table has one
\* row per primary row, in the primary order and with the primary fields
\* unchanged; a lookup field is that of the matching lookup row, or null when
\* no lookup row matches. No sort is part of the merge.
C3_LeftMergeKeepsRows ==
    (/\ pc # "ss_transform"
     /\ ~HasDuplicateKey(ss_pen_portraits, "type")
     /\ ~HasDuplicateKey(ss_per_geometry, "id")) =>
        /\ Len(ss.rows) = Len(ss_raw.rows)
        /\ \A j \in DOMAIN ss.rows :
            /\ Restrict(ss.rows[j], ss_raw.columns) = ss_raw.rows[j]
            /\ LET ds == LookupValues(ss_pen_portraits, "type",
                                      ss_raw.rows[j].type, "description")
               IN IF ds = {} THEN ss.rows[j].description = NULL
                  ELSE ss.rows[j].description \in ds
            /\ LET cs == LookupValues(ss_per_geometry, "id",
                                      ss_raw.rows[j].id, "code")
               IN IF cs = {} THEN ss.rows[j].code = NULL
                  ELSE ss.rows[j].code \in cs

C3_Witness ==
    /\ pc = "ss_load"
    /\ ~HasDuplicateKey(ss_pen_portraits, "type")
    /\ ~HasDuplicateKey(ss_per_geometry, "id")
    /\ Len(ss.rows) = 2
    /\ ss.rows[1].description = NULL
    /\ ss.rows[2].description # NULL
    /\ ss.rows[1].code # NULL
    /\ ss.rows[1].id # ss.rows[2].id

\* C4: when a lookup table repeats a join key, the merge raises
\* DuplicateJoinKey and produces no rows; no primary row is ever duplicated.
C4_DuplicateKeyRaises ==
    pc # "ss_transform" =>
        /\ (HasDuplicateKey(ss_pen_portraits, "type")
              \/ HasDuplicateKey(ss_per_geometry, "id"))
            => (err = "DuplicateJoinKey" /\ ss = UNSET)
        /\ ss # UNSET =>
              \A a, b \in DOMAIN ss.rows :
                  a # b => ss.rows[a].geometry # ss.rows[b].geometry

\* C5: once the assert cell has run, tables whose column sets differ have ended
\* the run with the assertion's error and no merged table exists; tables whose
\* column sets are equal passed the assert and the run went on to the merge.
C5_SchemaMismatchAborts ==
    pc # "assert_columns" =>
        IF SymmetricDifference(medsat_2019.columns, medsat_2020.columns) # {}
        THEN pc = "aborted" /\ err = "AssertionError" /\ medsat = UNSET
        ELSE /\ err # "AssertionError"
             /\ \/ pc = "medsat_data"
                \/ medsat # UNSET
                \/ err = "KeyError"

C5_Witness ==
    /\ pc = "aborted"
    /\ err = "AssertionError"
    /\ medsat_2019.columns \ medsat_2020.columns = {}
    /\ medsat_2020.columns \ medsat_2019.columns # {}
    /\ Len(medsat_2019.rows) > 0

\* The join and sort keys of the MedSat table.
KeyColumns == {"LSOA21CD", "RGN22CD", "year"}

\* The catalogue records that resolve to column c.
RecordsFor(c) == {j \in DOMAIN variables : variables[j].medsat_name = c}

\* C6: once the gap cell has run, the report holds every non-key column of
\* medsat that does not have exactly one record resolving to it and every
\* record's column that is no column of medsat, and it is empty when every
\* non-key column has a record and every record resolves to a column.
C6_GapReportComplete ==
    pc \in {"load_parquet", "load_copy", "load_csv", "done"} =>
        /\ \A c \in medsat.columns \ KeyColumns :
               Cardinality(RecordsFor(c)) # 1 => c \in gap_report
        /\ \A j \in DOMAIN variables :
               variables[j].medsat_name \notin medsat.columns
                   => variables[j].medsat_name \in gap_report
        /\ (/\ \A c \in medsat.columns \ KeyColumns : RecordsFor(c) # {}
            /\ \A j \in DOMAIN variables : variables[j].medsat_name \in medsat.columns)
               => gap_report = {}

\* The catalogue entries with no matching column; the notebook has no
\* allow-list and no acknowledgement, so none of them is excused.
UnresolvedVariables ==
    {j \in DOMAIN variables : variables[j].medsat_name \notin medsat.columns}

\* C7: no Load cell has written anything while a catalogue entry is unresolved.
C7_LoadBlockedWhileUnresolved ==
    loaded # {} => UnresolvedVariables = {}

\* The fields a sheet's cell forward-fills.
FilledFields(name) ==
    IF name = "sociodemographic" THEN {"more_info", "year"}
    ELSE IF name = "environmental" THEN {"link_to_data_source"}
    ELSE {}

\* The nearest non-null cell of col above row j; row 0 when there is none.
PrecedingValueRow(col, j) ==
    IF \E m \in 1..(j - 1) : col[m] # NULL
    THEN CHOOSE m \in 1..(j - 1) :
             col[m] # NULL /\ \A q \in (m + 1)..(j - 1) : col[q] = NULL
    ELSE 0

\* What a filled cell must hold for input cell v: v itself, as int for year.
Expected(f, v) == IF f = "year" THEN IntOf(v) ELSE v

\* C8: once a sheet's cell has run, a forward-filled field that began with a
\* null has made the cell fail with an error; otherwise every cell that was
\* null holds the nearest non-null value above it, every other cell is
\* unchanged, and no null is left.
C8_ForwardFillOrError ==
    pc \in {"done", "aborted"} =>
        \A f \in FilledFields(sheet_in.name) :
            LET col == sheet_in[f]
            IN IF col # <<>> /\ col[1] = NULL
               THEN err # "none"
               ELSE err = "none" =>
                    \A j \in DOMAIN col :
                        sheet_out[f][j] =
                            Expected(f, IF col[j] # NULL THEN col[j]
                                        ELSE col[PrecedingValueRow(col, j)])

Whitespace == {" "}
UpperCase == {"A"}
Parentheses == {"(", ")"}

\* A run of whitespace collapsed to one space.
RECURSIVE CollapseRuns(_)
CollapseRuns(str) ==
    IF Len(str) >= 2 /\ str[1] \in Whitespace /\ str[2] \in Whitespace
    THEN CollapseRuns(Tail(str))
    ELSE IF str = <<>> THEN <<>>
    ELSE <<Head(str)>> \o CollapseRuns(Tail(str))

\* Whether two raw names differ only in letter case, in the length of runs of
\* whitespace, or in leading or trailing whitespace.
SameUpToCaseAndWhitespace(x, y) ==
    Lower(Strip(CollapseRuns(x))) = Lower(Strip(CollapseRuns(y)))

\* C9: once a sheet's cell has run, two raw headers that differ only in case and
\* whitespace have the same cleaned name, and no cleaned name holds whitespace,
\* an upper-case letter or a parenthesis.
C9_NormalizeCaseWhitespaceInsensitive ==
    pc \in {"done", "aborted"} =>
        /\ \A a, b \in DOMAIN sheet_in.columns :
               SameUpToCaseAndWhitespace(sheet_in.columns[a], sheet_in.columns[b])
                   => sheet_out.columns[a] = sheet_out.columns[b]
        /\ \A a \in DOMAIN sheet_out.columns :
               \A j \in DOMAIN sheet_out.columns[a] :
                   sheet_out.columns[a][j] \notin Whitespace \cup UpperCase \cup Parentheses

\* The override tables one could declare: a forced census column of medsat for
\* some of the declared names.
OverrideTables ==
    UNION {[D -> CColumns(medsat)] : D \in SUBSET DeclaredNames}

====
